---- MODULE Spec2Model ----
(***************************************************************************)
(* A model of wuxia-dl (src/src/main.rs): the table-of-contents parser,    *)
(* the chapter extraction cascade, the parallel chapter fetch and the      *)
(* assembly of the epub.                                                   *)
(*                                                                         *)
(* Text is a sequence of one-character strings.  A chapter index is a      *)
(* natural number; parsing and formatting convert between digit sequences  *)
(* and numbers.                                                            *)
(***************************************************************************)
EXTENDS Integers, Sequences, FiniteSets, TLC

\* Largest number of chapter anchors of a table-of-contents page.
MaxChapters == 2
\* Longest anchor text drawn from the alphabet in the title specification.
MaxTextLen == 3
\* Largest number of elements of a chapter document in the extraction specification.
MaxNodes == 3

(***************************************************************************)
(* Characters and text                                                     *)
(***************************************************************************)

Digits == <<"0", "1", "2", "3", "4", "5", "6", "7", "8", "9">>

IsDigit(c) == \E d \in 1..10 : Digits[d] = c

DigitVal(c) == (CHOOSE d \in 1..10 : Digits[d] = c) - 1

\* char::is_whitespace, for the characters of the model
IsWhite(c) == c \in {" ", "\n", "\t"}

\* the class [- ] of chapter_regex
IsSep(c) == c \in {"-", " "}

\* the class . of chapter_regex: any character but a line feed
IsDot(c) == c # "\n"

SetMin(S) == CHOOSE x \in S : \A y \in S : x <= y

SetMax(S) == CHOOSE x \in S : \A y \in S : x >= y

\* str::trim: the text without its leading and trailing white space
Trim(t) ==
    LET keep == { i \in 1..Len(t) : ~IsWhite(t[i]) }
    IN  IF keep = {} THEN << >> ELSE SubSeq(t, SetMin(keep), SetMax(keep))

\* the character classes of chapter_regex
InClass(c, cls) ==
    CASE cls = "digit" -> IsDigit(c)
      [] cls = "sep"   -> IsSep(c)
      [] cls = "dot"   -> IsDot(c)

\* the end of the longest run of characters of a class that starts at p
\* (p - 1 when t[p] is not in the class): a greedy star
RunEnd(t, p, cls) ==
    LET stops == { j \in p..Len(t) : ~InClass(t[j], cls) }
    IN  IF stops = {} THEN Len(t) ELSE SetMin(stops) - 1

NoCapture == [matched |-> FALSE]

\* chapter_regex with .*? for .+?: the digits may be the first characters
MatchAt_Star(t, s) ==
    LET ks == { k \in 0..(Len(t) - s) :
                   /\ \A j \in s..(s + k - 1) : IsDot(t[j])
                   /\ IsDigit(t[s + k]) }
    IN  IF ks = {} THEN NoCapture
        ELSE LET p  == s + SetMin(ks)
                 e  == RunEnd(t, p, "digit")
                 se == RunEnd(t, e + 1, "sep")
                 te == RunEnd(t, se + 1, "dot")
             IN  [matched |-> TRUE,
                  cap1 |-> SubSeq(t, p, e),
                  cap2 |-> SubSeq(t, se + 1, te)]

\* chapter_regex matched with its first character at s.  The lazy .+? takes
\* the fewest characters (at least one) after which a digit follows; the
\* greedy \d+, [- ]* and .* then take their longest runs and never give any
\* back, because what follows each of them can match the empty string.
MatchAt(t, s) ==
    LET ks == { k \in 1..(Len(t) - s) :
                   /\ \A j \in s..(s + k - 1) : IsDot(t[j])
                   /\ IsDigit(t[s + k]) }
    IN  IF ks = {} THEN NoCapture
        ELSE LET p  == s + SetMin(ks)
                 e  == RunEnd(t, p, "digit")
                 se == RunEnd(t, e + 1, "sep")
                 te == RunEnd(t, se + 1, "dot")
             IN  [matched |-> TRUE,
                  cap1 |-> SubSeq(t, p, e),
                  cap2 |-> SubSeq(t, se + 1, te)]

\* Regex::captures: the match that starts leftmost
Captures(t) ==
    LET starts == { s \in 1..Len(t) : MatchAt(t, s).matched }
    IN  IF starts = {} THEN NoCapture ELSE MatchAt(t, SetMin(starts))

\* the digits of u32::MAX, 4294967295
U32MaxDigits == <<"4", "2", "9", "4", "9", "6", "7", "2", "9", "5">>

StripZeros(d) ==
    LET nz == { i \in 1..Len(d) : d[i] # "0" }
    IN  IF nz = {} THEN << >> ELSE SubSeq(d, SetMin(nz), Len(d))

\* a < b for digit sequences of the same length
DigitsLess(a, b) ==
    \E i \in 1..Len(a) :
        /\ \A j \in 1..(i - 1) : a[j] = b[j]
        /\ DigitVal(a[i]) < DigitVal(b[i])

RECURSIVE DigitsValue(_)
DigitsValue(d) ==
    IF d = << >> THEN 0
    ELSE 10 * DigitsValue(SubSeq(d, 1, Len(d) - 1)) + DigitVal(d[Len(d)])

\* str::parse::<u32> on a non-empty run of digits: an error past u32::MAX
ParseU32(d) ==
    LET s == StripZeros(d)
    IN  IF Len(s) > 10 \/ (Len(s) = 10 /\ DigitsLess(U32MaxDigits, s))
        THEN [ok |-> FALSE]
        ELSE [ok |-> TRUE, value |-> DigitsValue(s)]

\* the decimal digits of n, as format!("{}", n) writes them
RECURSIVE FormatU32(_)
FormatU32(n) ==
    IF n < 10 THEN << Digits[n + 1] >>
    ELSE FormatU32(n \div 10) \o << Digits[(n % 10) + 1] >>

(***************************************************************************)
(* The table-of-contents parser: fetch_book_info                           *)
(***************************************************************************)

\* lines 146-154 of fetch_book_info: the anchor's text is trimmed and split
\* by chapter_regex into an index and a title
DecomposeTitle(raw) ==
    LET full_title == Trim(raw)
        cap        == Captures(full_title)
    IN  IF ~cap.matched
        THEN [ok |-> FALSE,
              err |-> [msg |-> "Failed to match regex against: {}", arg |-> full_title]]
        ELSE LET index == ParseU32(cap.cap1)
             IN  IF ~index.ok
                 THEN [ok |-> FALSE,
                       err |-> [msg |-> "Unable to parse index {}", arg |-> cap.cap1]]
                 ELSE [ok |-> TRUE, index |-> index.value, title |-> cap.cap2]

\* lines 156-165: the chapter of an anchor whose text gave d
Linked(anchor, d) ==
    IF ~d.ok THEN d
    ELSE IF anchor.href = "none"
    THEN [ok |-> FALSE, err |-> [msg |-> "No href specified", arg |-> << >>]]
    ELSE IF anchor.href = "bad"
    THEN [ok |-> FALSE,
          err |-> [msg |-> "Unable to append href to url", arg |-> << >>]]
    ELSE [ok |-> TRUE,
          chapter |-> [index |-> d.index, title |-> d.title, link |-> anchor.href]]

\* an anchor is [text, href]; href is "none" when the attribute is absent and
\* "bad" when Url::join rejects it, and otherwise the link it resolves to
ChapterOf(anchor) == Linked(anchor, DecomposeTitle(anchor.text))

\* the loop over the anchors: the chapters in document order, or the first
\* error; c is what the first of the anchors gave
RECURSIVE ParseChapters(_, _)
RECURSIVE PushChapter(_, _, _)
PushChapter(anchors, chapters, c) ==
    IF ~c.ok THEN c
    ELSE ParseChapters(Tail(anchors), Append(chapters, c.chapter))

ParseChapters(anchors, chapters) ==
    IF anchors = << >> THEN [ok |-> TRUE, chapters |-> chapters]
    ELSE PushChapter(anchors, chapters, ChapterOf(Head(anchors)))

\* lines 168-175: the BookInfo of a title and of what the loop gave
BookOf(title, r) ==
    IF ~r.ok THEN r
    ELSE [ok |-> TRUE, info |-> [title |-> title, chapters |-> r.chapters]]

\* a table-of-contents document is [title, anchors]; title is "none" when no
\* h4 under p-15 exists
ParseToc(toc) ==
    IF toc.title = "none"
    THEN [ok |-> FALSE, err |-> [msg |-> "Failed to locate book title", arg |-> << >>]]
    ELSE BookOf(toc.title, ParseChapters(toc.anchors, << >>))

(***************************************************************************)
(* Chapter documents and the extraction cascade: try_with and              *)
(* fetch_chapter_content                                                   *)
(*                                                                         *)
(* A document is the sequence of its elements in document order.  An       *)
(* element is [depth, name, cls, text]: its nesting depth (an element's    *)
(* parent is the nearest earlier element one level up), its tag name, its  *)
(* classes and the text it holds before its first child.                   *)
(***************************************************************************)

Parent(doc, i) ==
    LET up == { j \in 1..(i - 1) : doc[j].depth = doc[i].depth - 1 }
    IN  IF up = {} THEN 0 ELSE SetMax(up)

RECURSIVE Ancestors(_, _)
Ancestors(doc, i) ==
    LET p == Parent(doc, i)
    IN  IF p = 0 THEN {} ELSE {p} \cup Ancestors(doc, p)

\* the last element of the subtree of element i
SubtreeEnd(doc, i) ==
    LET out == { j \in (i + 1)..Len(doc) : doc[j].depth <= doc[i].depth }
    IN  IF out = {} THEN Len(doc) ELSE SetMin(out) - 1

RECURSIVE TextOfRange(_, _, _)
TextOfRange(doc, i, j) ==
    IF i > j THEN << >> ELSE doc[i].text \o TextOfRange(doc, i + 1, j)

\* Node::text: the text of the element and of all its descendants
NodeText(doc, i) == TextOfRange(doc, i, SubtreeEnd(doc, i))

\* the three targets of fetch_chapter_content, lines 206, 208 and 210
Matches(doc, i, target) ==
    CASE target = 1 ->
            /\ doc[i].name = "p"
            /\ \E a \in Ancestors(doc, i) : {"innerContent", "fr-view"} \subseteq doc[a].cls
      [] target = 2 ->
            /\ doc[i].name = "p"
            /\ Parent(doc, i) # 0
            /\ "fr-view" \in doc[Parent(doc, i)].cls
      [] target = 3 ->
            /\ doc[i].name = "span"
            /\ \E a \in Ancestors(doc, i) : "fr-view" \in doc[a].cls

\* the nine characters of "<br><br> "
BreakMarker == <<"<", "b", "r", ">", "<", "b", "r", ">", " ">>

RECURSIVE TryWithFrom(_, _, _, _)
TryWithFrom(content, doc, target, i) ==
    IF i > Len(doc) THEN content
    ELSE IF ~Matches(doc, i, target) THEN TryWithFrom(content, doc, target, i + 1)
    ELSE LET text == NodeText(doc, i)
         IN  IF Len(text) = 0 THEN TryWithFrom(content, doc, target, i + 1)
             ELSE TryWithFrom(content \o text \o BreakMarker, doc, target, i + 1)

\* try_with without the test of line 182: an element without text leaves a
\* break marker
RECURSIVE KeepBreakFrom(_, _, _, _)
KeepBreakFrom(content, doc, target, i) ==
    IF i > Len(doc) THEN content
    ELSE IF ~Matches(doc, i, target) THEN KeepBreakFrom(content, doc, target, i + 1)
    ELSE KeepBreakFrom(content \o NodeText(doc, i) \o BreakMarker, doc, target, i + 1)

TryWith_KeepBreak(content, doc, target) == KeepBreakFrom(content, doc, target, 1)

\* the macro try_with: every matching element in document order
TryWith(content, doc, target) == TryWithFrom(content, doc, target, 1)

\* the state of an extraction: the document, the buffer, the place in lines
\* 205-215, and (as history) the targets that were applied
ExtractStart(doc) == [doc |-> doc, pc |-> "try1", content |-> << >>, applied |-> {}]

Apply(st, target, next) ==
    [st EXCEPT !.content = TryWith(st.content, st.doc, target),
               !.applied = @ \cup {target},
               !.pc = next]

\* lines 205-215 without the panic of line 214: an empty buffer is a page
ExtractStep_NoCheck(st) ==
    CASE st.pc = "try1" -> Apply(st, 1, "try2")
      [] st.pc = "try2" ->
            IF Len(st.content) = 0 THEN Apply(st, 2, "try3")
            ELSE [st EXCEPT !.pc = "check"]
      [] st.pc = "try3" ->
            IF Len(st.content) = 0 THEN Apply(st, 3, "check")
            ELSE [st EXCEPT !.pc = "check"]
      [] st.pc = "check" -> [st EXCEPT !.pc = "found"]
      [] OTHER -> st

\* one step of lines 205-215
ExtractStep(st) ==
    CASE st.pc = "try1" -> Apply(st, 1, "try2")
      [] st.pc = "try2" ->
            IF Len(st.content) = 0 THEN Apply(st, 2, "try3")
            ELSE [st EXCEPT !.pc = "check"]
      [] st.pc = "try3" ->
            IF Len(st.content) = 0 THEN Apply(st, 3, "check")
            ELSE [st EXCEPT !.pc = "check"]
      [] st.pc = "check" ->
            IF Len(st.content) = 0 THEN [st EXCEPT !.pc = "panic"]
            ELSE [st EXCEPT !.pc = "found"]
      [] OTHER -> st

\* lines 205-215 from start to end
ExtractContent(doc) == ExtractStep(ExtractStep(ExtractStep(ExtractStep(ExtractStart(doc)))))

\* the page with the chapter's title in its heading
Page_TitleHeading(chapter, content) ==
    [name    |-> <<"c", "h", "a", "p", "t", "e", "r", "_">> \o FormatU32(chapter.index)
                   \o <<".", "x", "h", "t", "m", "l">>,
     title   |-> <<"C", "h", "a", "p", "t", "e", "r", " ">> \o chapter.title,
     content |-> content]

\* lines 217-224: the page of a chapter
Page(chapter, content) ==
    [name    |-> <<"c", "h", "a", "p", "t", "e", "r", "_">> \o FormatU32(chapter.index)
                   \o <<".", "x", "h", "t", "m", "l">>,
     title   |-> <<"C", "h", "a", "p", "t", "e", "r", " ">> \o FormatU32(chapter.index),
     content |-> content]

(***************************************************************************)
(* Inputs                                                                  *)
(***************************************************************************)

SeqsUpTo(S, n) == UNION { [1..m -> S] : m \in 0..n }

\* anchor texts: every text of at most MaxTextLen characters of TitleAlphabet,
\* and some longer ones
TitleAlphabet == {"1", "7", "-", " ", "R", "\n"}

TextAwakening ==
    <<"1", "2", ".", " ", "T", "h", "e", " ", "A", "w", "a", "k", "e", "n", "i", "n", "g">>

TextReturn == <<"7", "-", "R", "e", "t", "u", "r", "n">>

TextForeword == <<"F", "o", "r", "e", "w", "o", "r", "d">>

TextChapter12 ==
    <<"C", "h", "a", "p", "t", "e", "r", " ", "1", "2", " ", "-", " ", "T", "h", "e", " ",
      "A", "w", "a", "k", "e", "n", "i", "n", "g">>

TextChapter1 == <<" ", "C", "h", "a", "p", "t", "e", "r", " ", "0", "1", "\n">>

\* an index one past u32::MAX
TextTooLarge == <<"N", "o", " ", "4", "2", "9", "4", "9", "6", "7", "2", "9", "6">>

NamedTexts ==
    {TextAwakening, TextReturn, TextForeword, TextChapter12, TextChapter1, TextTooLarge}

TitleTexts == SeqsUpTo(TitleAlphabet, MaxTextLen) \cup NamedTexts

\* the anchors of the table-of-contents pages of the run
AnchorSet ==
    { [text |-> TextChapter1,  href |-> "/chapter-1"],
      [text |-> TextChapter12, href |-> "/chapter-12"],
      [text |-> TextForeword,  href |-> "/foreword"],
      [text |-> TextChapter12, href |-> "none"],
      [text |-> TextChapter1,  href |-> "bad"] }

NoToc == [title |-> "none", anchors |-> << >>]

TocDocs ==
    { [title |-> t, anchors |-> a] :
        t \in {"none", "Book"}, a \in SeqsUpTo(AnchorSet, MaxChapters) }

\* what the server answers to the table-of-contents request
TocResponses ==
    { [kind |-> k, doc |-> NoToc] : k \in {"send_error", "read_error"} }
        \cup { [kind |-> "doc", doc |-> d] : d \in TocDocs }

El(depth, name, cls, text) == [depth |-> depth, name |-> name, cls |-> cls, text |-> text]

ElementKinds ==
    { [name |-> "div",  cls |-> {}],
      [name |-> "div",  cls |-> {"fr-view"}],
      [name |-> "div",  cls |-> {"innerContent", "fr-view"}],
      [name |-> "p",    cls |-> {}],
      [name |-> "span", cls |-> {}] }

Letters == <<"a", "b", "c", "d", "e">>

\* the i-th element holds no text or the i-th letter
ElementsAt(i, depths) ==
    { El(d, k.name, k.cls, x) :
        d \in depths, k \in ElementKinds, x \in {<< >>, << Letters[((i - 1) % 5) + 1] >>} }

\* the elements that may follow the elements of doc: an element is at most one
\* level below the element before it
NextElements(doc) ==
    ElementsAt(Len(doc) + 1,
               1..(IF doc = << >> THEN 1 ELSE doc[Len(doc)].depth + 1))

\* chapter pages of the run: text found by the first target, by the second, by
\* the third only, and no text at all (no match; matches that hold no text)
DocInner ==
    << El(1, "div", {"innerContent", "fr-view"}, << >>),
       El(2, "p", {}, <<"a">>), El(2, "p", {}, << >>), El(2, "p", {}, <<"c">>) >>

DocView == << El(1, "div", {"fr-view"}, << >>), El(2, "p", {}, <<"b">>) >>

DocSpan ==
    << El(1, "div", {"fr-view"}, <<"x">>), El(2, "div", {}, << >>),
       El(3, "span", {}, <<"s">>) >>

DocBare == << El(1, "div", {}, << >>), El(2, "p", {}, <<"a">>) >>

DocHollow ==
    << El(1, "div", {"innerContent", "fr-view"}, << >>), El(2, "p", {}, << >>),
       El(2, "span", {}, << >>) >>

ChapterDocs == {DocInner, DocView, DocSpan, DocBare, DocHollow}

\* what the server answers to a chapter request
ChapterResponses ==
    { [kind |-> k, doc |-> << >>] : k \in {"send_error", "read_error"} }
        \cup { [kind |-> "doc", doc |-> d] : d \in ChapterDocs }

\* the exit status of a process whose main thread panicked: 101 when the panic
\* unwinds, 134 (SIGABRT) when the build aborts on panic
PanicExitCodes == {101, 134}

(***************************************************************************)
(* State                                                                   *)
(***************************************************************************)

VARIABLES
    pc,          \* where main and run are
    argc,        \* args.len()
    info,        \* the BookInfo of run
    tasks,       \* the closure of the parallel map, one per chapter
    completed,   \* history: the chapters in the order their tasks returned
    tocRequests, \* history: how often the table of contents was requested
    pages,       \* the collected pages
    builder,     \* the contents added to the EpubBuilder
    file,        \* the file <title>.epub
    fileOps,     \* history: what was done to that file
    err,         \* the error chain run returned, outermost first
    exit,        \* the exit status of the process, << >> while it runs
    stderr,      \* what the process wrote to the error stream
    ext,         \* an extraction, in the extraction specification
    ttl          \* a title decomposition, in the title specification

vars ==
    <<pc, argc, info, tasks, completed, tocRequests, pages, builder, file, fileOps,
      err, exit, stderr, ext, ttl>>

runVars ==
    <<pc, argc, info, tasks, completed, tocRequests, pages, builder, file, fileOps,
      err, exit, stderr>>

NoInfo == [title |-> "none", chapters |-> << >>]

ExtIdle == [doc |-> << >>, pc |-> "idle", content |-> << >>, applied |-> {}]

TtlIdle == [text |-> << >>, pc |-> "idle"]

RunIdle ==
    /\ pc = "idle"
    /\ argc = 0
    /\ info = NoInfo
    /\ tasks = << >>
    /\ completed = << >>
    /\ tocRequests = 0
    /\ pages = << >>
    /\ builder = << >>
    /\ file = "absent"
    /\ fileOps = << >>
    /\ err = << >>
    /\ exit = << >>
    /\ stderr = "none"

\* The process starts with its own name and any number of arguments; a file
\* of the book's name may exist already.
Init ==
    /\ pc = "main"
    /\ argc \in 1..3
    /\ info = NoInfo
    /\ tasks = << >>
    /\ completed = << >>
    /\ tocRequests = 0
    /\ pages = << >>
    /\ builder = << >>
    /\ file \in {"absent", "old"}
    /\ fileOps = << >>
    /\ err = << >>
    /\ exit = << >>
    /\ stderr = "none"
    /\ ext = ExtIdle
    /\ ttl = TtlIdle

E(msg) == [msg |-> msg, arg |-> << >>]

\* run returns Err(chain) through ?
Fail(chain) ==
    /\ err' = chain
    /\ pc' = "err"

(***************************************************************************)
(* main and run                                                            *)
(***************************************************************************)

\* main, lines 40-43: the wrong number of arguments prints the usage
Usage ==
    /\ pc = "main"
    /\ argc # 2
    /\ pc' = "exited"
    /\ exit' = <<0>>
    /\ UNCHANGED <<argc, info, tasks, completed, tocRequests, pages, builder, file,
                   fileOps, err, stderr, ext, ttl>>

\* run, lines 56-58
ParseUrl ==
    /\ pc = "main"
    /\ argc = 2
    /\ \E ok \in BOOLEAN :
          IF ok THEN pc' = "toc" /\ err' = err
          ELSE Fail(<<E("Unable to parse URL: {}")>>)
    /\ UNCHANGED <<argc, info, tasks, completed, tocRequests, pages, builder, file,
                   fileOps, exit, stderr, ext, ttl>>

\* fetch_book_info for an answer of the server, or for a request that could
\* not be built
BookInfoOf(resp) ==
    CASE resp.kind = "build_error" ->
            [ok |-> FALSE, err |-> E("Unable to construct book info request.")]
      [] resp.kind = "send_error" ->
            [ok |-> FALSE, err |-> E("Unable to execute book info request.")]
      [] resp.kind = "read_error" ->
            [ok |-> FALSE, err |-> E("Unable to construct document from response.")]
      [] resp.kind = "doc" -> ParseToc(resp.doc)

\* run, lines 63-64, and fetch_book_info
FetchBookInfo ==
    /\ pc = "toc"
    /\ \E resp \in TocResponses \cup {[kind |-> "build_error", doc |-> NoToc]} :
       \E r \in {BookInfoOf(resp)} :
          /\ tocRequests' = IF resp.kind = "build_error" THEN tocRequests
                            ELSE tocRequests + 1
          /\ IF r.ok THEN info' = r.info /\ pc' = "builder" /\ err' = err
             ELSE info' = info /\ Fail(<<E("Unable to fetch book info."), r.err>>)
    /\ UNCHANGED <<argc, tasks, completed, pages, builder, file, fileOps, exit,
                   stderr, ext, ttl>>

NoPage == [name |-> << >>, title |-> << >>, content |-> << >>]

\* a task of the parallel map: where it is, how many requests it sent, what it
\* was answered, why it failed, and the page it returned
TaskIdle ==
    [st |-> "idle", requests |-> 0, resp |-> "none", doc |-> << >>, cause |-> "none",
     page |-> NoPage]

SetupErrors ==
    {"Unable to construct ZipLibrary.", "Unable to construct EpubBuilder",
     "Unable to alter title.", "Unable to alter Table of Contents.",
     "Unable to set author metadata."}

\* run, lines 66-84: the builder and its metadata; then the parallel map starts
SetupBuilder ==
    /\ pc = "builder"
    /\ \E failing \in SetupErrors \cup {"none"} :
          IF failing = "none"
          THEN /\ tasks' = [k \in 1..Len(info.chapters) |-> TaskIdle]
               /\ pc' = "fetch"
               /\ err' = err
          ELSE /\ tasks' = tasks
               /\ Fail(<<E(failing)>>)
    /\ UNCHANGED <<argc, info, completed, tocRequests, pages, builder, file, fileOps,
                   exit, stderr, ext, ttl>>

\* fetch_chapter_content, lines 199-224, for an answer of the server
FetchChapterContent(chapter, resp) ==
    CASE resp.kind = "send_error" -> [kind |-> "err", cause |-> "send", page |-> NoPage]
      [] resp.kind = "read_error" -> [kind |-> "err", cause |-> "read", page |-> NoPage]
      [] resp.kind = "doc" ->
            LET x == ExtractContent(resp.doc)
            IN  IF x.pc = "panic"
                THEN [kind |-> "panic", cause |-> "no_content", page |-> NoPage]
                ELSE [kind |-> "ok", cause |-> "none", page |-> Page(chapter, x.content)]

\* the closure with unwrap_or_default: a failed chapter gives an empty page
Unwrap_OrDefault(task, r) ==
    IF r.kind = "ok"
    THEN [task EXCEPT !.st = "done", !.page = r.page]
    ELSE [task EXCEPT !.st = "done", !.cause = r.cause]

\* the closure trying again after an error
Unwrap_Retry(task, r) ==
    IF r.kind = "ok"
    THEN [task EXCEPT !.st = "done", !.page = r.page]
    ELSE IF r.kind = "err"
    THEN [task EXCEPT !.st = "idle", !.cause = r.cause]
    ELSE [task EXCEPT !.st = "panicked", !.cause = r.cause]

\* the closure of the map, lines 88-92: a task after fetch_chapter_content
\* returned r and unwrap was applied to it
Unwrap(task, r) ==
    IF r.kind = "ok"
    THEN [task EXCEPT !.st = "done", !.page = r.page]
    ELSE [task EXCEPT !.st = "panicked", !.cause = r.cause]

\* fetch_chapter_content, lines 192-199: the request is built and sent
TaskStart(k) ==
    /\ pc = "fetch"
    /\ tasks[k].st = "idle"
    /\ \E built \in BOOLEAN :
          tasks' = [tasks EXCEPT ![k] =
                      IF built
                      THEN [@ EXCEPT !.st = "sent", !.requests = @ + 1]
                      ELSE Unwrap(@, [kind |-> "err", cause |-> "build", page |-> NoPage])]
    /\ UNCHANGED <<pc, argc, info, completed, tocRequests, pages, builder, file,
                   fileOps, err, exit, stderr, ext, ttl>>

\* fetch_chapter_content, lines 199-224, and the unwrap of line 91
TaskFinish(k) ==
    /\ pc = "fetch"
    /\ tasks[k].st = "sent"
    /\ \E resp \in ChapterResponses :
          LET r == FetchChapterContent(info.chapters[k], resp)
          IN  /\ tasks' = [tasks EXCEPT ![k] =
                             Unwrap([@ EXCEPT !.resp = resp.kind, !.doc = resp.doc], r)]
              /\ completed' = IF tasks'[k].st = "done" THEN Append(completed, k)
                              ELSE completed
    /\ UNCHANGED <<pc, argc, info, tocRequests, pages, builder, file, fileOps, err,
                   exit, stderr, ext, ttl>>

\* the results in the order the tasks returned them
CollectPages_Arrival(ts) == [k \in 1..Len(ts) |-> ts[completed[k]].page]

\* collect on an indexed parallel iterator, line 93: the results by position
CollectPages(ts) == [k \in 1..Len(ts) |-> ts[k].page]

\* run, lines 86-93: every task returned a page
Collect ==
    /\ pc = "fetch"
    /\ \A k \in 1..Len(tasks) : tasks[k].st = "done"
    /\ pages' = CollectPages(tasks)
    /\ pc' = "assemble"
    /\ UNCHANGED <<argc, info, tasks, completed, tocRequests, builder, file, fileOps,
                   err, exit, stderr, ext, ttl>>

\* run, lines 86-93: a panic of a task ends the process, by unwinding through
\* collect, run and main or by aborting at once
PropagatePanic ==
    /\ pc = "fetch"
    /\ \E k \in 1..Len(tasks) : tasks[k].st = "panicked"
    /\ \E code \in PanicExitCodes : exit' = <<code>>
    /\ stderr' = "panic"
    /\ pc' = "exited"
    /\ UNCHANGED <<argc, info, tasks, completed, tocRequests, pages, builder, file,
                   fileOps, err, ext, ttl>>

\* run, lines 102-106: the next page is added
AddPage ==
    /\ pc = "assemble"
    /\ Len(builder) < Len(pages)
    /\ \E ok \in BOOLEAN :
          IF ok THEN builder' = Append(builder, pages[Len(builder) + 1])
                     /\ pc' = pc /\ err' = err
          ELSE builder' = builder /\ Fail(<<E("Unable to add page.")>>)
    /\ UNCHANGED <<argc, info, tasks, completed, tocRequests, pages, file, fileOps,
                   exit, stderr, ext, ttl>>

\* run, lines 108-114: a file of the book's name is removed
RemovePrevious ==
    /\ pc = "assemble"
    /\ Len(builder) = Len(pages)
    /\ IF file = "absent"
       THEN pc' = "create" /\ UNCHANGED <<file, fileOps, err>>
       ELSE \E ok \in BOOLEAN :
               IF ok THEN /\ file' = "absent"
                          /\ fileOps' = Append(fileOps, "remove")
                          /\ pc' = "create"
                          /\ err' = err
               ELSE /\ Fail(<<E("Failed to remove previous file: {}")>>)
                    /\ UNCHANGED <<file, fileOps>>
    /\ UNCHANGED <<argc, info, tasks, completed, tocRequests, pages, builder, exit,
                   stderr, ext, ttl>>

\* run, lines 115-116
CreateFile ==
    /\ pc = "create"
    /\ \E ok \in BOOLEAN :
          IF ok THEN /\ file' = "empty"
                     /\ fileOps' = Append(fileOps, "create")
                     /\ pc' = "generate"
                     /\ err' = err
          ELSE /\ Fail(<<E("Unable to create file: {}")>>)
               /\ UNCHANGED <<file, fileOps>>
    /\ UNCHANGED <<argc, info, tasks, completed, tocRequests, pages, builder, exit,
                   stderr, ext, ttl>>

\* run, lines 117-122
Generate ==
    /\ pc = "generate"
    /\ fileOps' = Append(fileOps, "write")
    /\ \E ok \in BOOLEAN :
          IF ok THEN file' = "epub" /\ pc' = "ok" /\ err' = err
          ELSE file' = "partial" /\ Fail(<<E("Unable to generate epub")>>)
    /\ UNCHANGED <<argc, info, tasks, completed, tocRequests, pages, builder, exit,
                   stderr, ext, ttl>>

\* main without the exit of line 51
ExitStatus_AlwaysZero(result) == 0

\* main, lines 45-52: the exit status for what run returned
ExitStatus(result) == IF result = "ok" THEN 0 ELSE 1

\* main, lines 45-53: run returned Ok
ReturnOk ==
    /\ pc = "ok"
    /\ exit' = <<ExitStatus("ok")>>
    /\ pc' = "exited"
    /\ UNCHANGED <<argc, info, tasks, completed, tocRequests, pages, builder, file,
                   fileOps, err, stderr, ext, ttl>>

\* main, lines 45-52: run returned Err; the chain is written to the error
\* stream, and main panics when that write fails
ReportError ==
    /\ pc = "err"
    /\ \E written \in BOOLEAN :
          IF written THEN stderr' = "chain" /\ exit' = <<ExitStatus("err")>>
          ELSE stderr' = "panic" /\ \E code \in PanicExitCodes : exit' = <<code>>
    /\ pc' = "exited"
    /\ UNCHANGED <<argc, info, tasks, completed, tocRequests, pages, builder, file,
                   fileOps, err, ext, ttl>>

Next ==
    \/ Usage
    \/ ParseUrl
    \/ FetchBookInfo
    \/ SetupBuilder
    \/ \E k \in 1..Len(tasks) : TaskStart(k)
    \/ \E k \in 1..Len(tasks) : TaskFinish(k)
    \/ Collect
    \/ PropagatePanic
    \/ AddPage
    \/ RemovePrevious
    \/ CreateFile
    \/ Generate
    \/ ReturnOk
    \/ ReportError

Spec == Init /\ [][Next]_vars

(***************************************************************************)
(* The title decomposition on its own                                      *)
(***************************************************************************)

InitTitle ==
    /\ RunIdle
    /\ ext = ExtIdle
    /\ ttl \in { [text |-> t, pc |-> "text"] : t \in TitleTexts }

\* lines 146-154 applied to the anchor text
Decompose ==
    /\ ttl.pc = "text"
    /\ ttl' = [text |-> ttl.text, pc |-> "split", res |-> DecomposeTitle(ttl.text)]
    /\ UNCHANGED <<runVars, ext>>

SpecTitle == InitTitle /\ [][Decompose]_vars

(***************************************************************************)
(* The extraction cascade on its own                                       *)
(***************************************************************************)

InitExtract ==
    /\ RunIdle
    /\ ttl = TtlIdle
    /\ ext = [doc |-> << >>, pc |-> "page", content |-> << >>, applied |-> {}]

\* the chapter page grows by an element
Compose ==
    /\ ext.pc = "page"
    /\ Len(ext.doc) < MaxNodes
    /\ \E e \in NextElements(ext.doc) : ext' = [ext EXCEPT !.doc = Append(@, e)]
    /\ UNCHANGED <<runVars, ttl>>

\* the chapter page is read: line 205
Read ==
    /\ ext.pc = "page"
    /\ ext' = ExtractStart(ext.doc)
    /\ UNCHANGED <<runVars, ttl>>

\* one step of lines 205-215
Extract ==
    /\ ext.pc \in {"try1", "try2", "try3", "check"}
    /\ ext' = ExtractStep(ext)
    /\ UNCHANGED <<runVars, ttl>>

NextExtract == Compose \/ Read \/ Extract

SpecExtract == InitExtract /\ [][NextExtract]_vars

(***************************************************************************)
(* Properties of the run                                                   *)
(***************************************************************************)

\* the number written in the name chapter_<n>.xhtml
IndexOfName(name) == DigitsValue(SubSeq(name, 9, Len(name) - 6))

\* d is the decimal numeral of n: digits only, no leading zero
IsDecimalOf(d, n) ==
    /\ Len(d) >= 1
    /\ \A i \in 1..Len(d) : IsDigit(d[i])
    /\ Len(d) > 1 => d[1] # "0"
    /\ DigitsValue(d) = n

ChapterFailed == \E k \in 1..Len(tasks) : tasks[k].cause # "none"

\* no element of the document that a target selects holds text
NoTextFound(doc) ==
    \A target \in 1..3 : \A i \in 1..Len(doc) :
        Matches(doc, i, target) => NodeText(doc, i) = << >>

Succeeded == pc = "exited" /\ argc = 2 /\ exit = <<0>>

\* C1: the contents handed to the builder are ascending by chapter index,
\* whatever the order of the table of contents and of the tasks' completion.
C1_AssemblerSeesAscendingIndex ==
    \A i \in 1..Len(builder) : \A j \in i..Len(builder) :
        IndexOfName(builder[i].name) <= IndexOfName(builder[j].name)

\* C2: a chapter page in which no target finds text makes the run fail, and no
\* content without text is ever added to the builder.
C2_EmptyChapterFailsRun ==
    /\ \A k \in 1..Len(builder) : builder[k].content # << >>
    /\ (\E k \in 1..Len(tasks) : tasks[k].resp = "doc" /\ NoTextFound(tasks[k].doc))
          => /\ pc \in {"fetch", "exited"}
             /\ builder = << >>
             /\ fileOps = << >>
             /\ pc = "exited" => exit \notin {<< >>, <<0>>}

C2_Witness ==
    /\ pc = "exited"
    /\ \E k \in 1..Len(tasks) :
          /\ tasks[k].resp = "doc"
          /\ NoTextFound(tasks[k].doc)
          /\ \E i \in 1..Len(tasks[k].doc) : Matches(tasks[k].doc, i, 1)
    /\ exit # <<0>>

\* C3: a failure of a chapter ends the run with the error chain on the error
\* stream and exit status 1, never with a panic.
C3_ChapterFailureIsChained ==
    ChapterFailed =>
        /\ stderr # "panic"
        /\ pc = "exited" => (exit = <<1>> /\ stderr = "chain" /\ err # << >>)

\* C4: once a chapter task failed, the file of the book is as it was before
\* the run: nothing was removed, created or written.
C4_FailedRunLeavesFile ==
    ChapterFailed => (fileOps = << >> /\ file \in {"absent", "old"})

C4_Witness ==
    /\ pc = "exited"
    /\ file = "old"
    /\ \E k \in 1..Len(tasks) : tasks[k].cause = "no_content"
    /\ \E k \in 1..Len(tasks) : tasks[k].st = "done"

\* C7: a run that succeeds added one content per chapter, in the order of the
\* collected pages, each named chapter_<index>.xhtml and headed Chapter <index>
\* with the decimal numeral of the chapter's parsed index.
C7_OneEntryPerChapter ==
    /\ Len(builder) <= Len(pages)
    /\ builder = SubSeq(pages, 1, Len(builder))
    /\ Len(pages) > 0 => Len(pages) = Len(info.chapters)
    /\ \A k \in 1..Len(builder) :
          LET name  == builder[k].name
              title == builder[k].title
              index == info.chapters[k].index
          IN  /\ SubSeq(name, 1, 8) = <<"c", "h", "a", "p", "t", "e", "r", "_">>
              /\ SubSeq(name, Len(name) - 5, Len(name)) = <<".", "x", "h", "t", "m", "l">>
              /\ IsDecimalOf(SubSeq(name, 9, Len(name) - 6), index)
              /\ SubSeq(title, 1, 8) = <<"C", "h", "a", "p", "t", "e", "r", " ">>
              /\ IsDecimalOf(SubSeq(title, 9, Len(title)), index)
    /\ Succeeded => Len(builder) = Len(info.chapters)

C7_Witness ==
    /\ Succeeded
    /\ Len(builder) = 2
    /\ info.chapters[1].index = 12
    /\ info.chapters[2].index = 1

C9_NoRetry ==
    /\ tocRequests <= 1
    /\ \A k \in 1..Len(tasks) :
          /\ tasks[k].requests <= 1
          /\ tasks[k].st \in {"sent", "done"} => tasks[k].requests = 1
          /\ tasks[k].cause # "none" => tasks[k].st = "panicked"
    /\ Len(pages) > 0 => \A k \in 1..Len(tasks) : tasks[k].requests = 1

C9_Witness ==
    /\ pc = "exited"
    /\ tocRequests = 1
    /\ \E k \in 1..Len(tasks) : tasks[k].cause = "send" /\ tasks[k].requests = 1
    /\ \E k \in 1..Len(tasks) : tasks[k].st = "done"

\* C10: the k-th content added is the page of the k-th chapter of the table of
\* contents, whatever the order in which the tasks returned.
C10_PagesInTocOrder ==
    /\ \A k \in 1..Len(pages) : pages[k] = tasks[k].page
    /\ \A k \in 1..Len(builder) :
          /\ builder[k] = tasks[k].page
          /\ IndexOfName(builder[k].name) = info.chapters[k].index
    /\ Succeeded => Len(builder) = Len(info.chapters)

C10_Witness ==
    /\ Succeeded
    /\ completed = <<2, 1>>
    /\ info.chapters[1].index > info.chapters[2].index
    /\ builder[1].content # builder[2].content

(***************************************************************************)
(* Properties of the extraction cascade                                    *)
(***************************************************************************)

\* the elements a target selects that hold text
TextfulMatches(doc, target) ==
    { i \in 1..Len(doc) : Matches(doc, i, target) /\ NodeText(doc, i) # << >> }

RECURSIVE OutputOver(_, _)
OutputOver(doc, S) ==
    IF S = {} THEN << >>
    ELSE LET i == SetMin(S)
         IN  NodeText(doc, i) \o BreakMarker \o OutputOver(doc, S \ {i})

\* what a target yields on its own: the text of each selected element that
\* holds text, each followed by one break marker, in document order
StrategyOutput(doc, target) == OutputOver(doc, TextfulMatches(doc, target))

OutputIf(doc, target, applied) ==
    IF target \in applied THEN StrategyOutput(doc, target) ELSE << >>

\* the first target that yields text, if any
FirstProducing(doc) ==
    { t \in 1..3 :
        /\ StrategyOutput(doc, t) # << >>
        /\ \A u \in 1..(t - 1) : StrategyOutput(doc, u) = << >> }

\* C6: the buffer holds what the applied targets yield on their own; a target
\* is applied only when every earlier one yielded nothing; the extraction
\* ends with exactly the output of the first target that yields text.
C6_FirstStrategyWins ==
    ext.pc \in {"try1", "try2", "try3", "check", "found", "panic"} =>
        /\ ext.content = OutputIf(ext.doc, 1, ext.applied)
                            \o OutputIf(ext.doc, 2, ext.applied)
                            \o OutputIf(ext.doc, 3, ext.applied)
        /\ \A t \in ext.applied : \A u \in 1..(t - 1) : StrategyOutput(ext.doc, u) = << >>
        /\ ext.pc \in {"found", "panic"} =>
              IF FirstProducing(ext.doc) = {}
              THEN ext.pc = "panic" /\ ext.content = << >> /\ ext.applied = {1, 2, 3}
              ELSE LET t == CHOOSE u \in FirstProducing(ext.doc) : TRUE
                   IN  /\ ext.pc = "found"
                       /\ ext.content = StrategyOutput(ext.doc, t)
                       /\ ext.applied = 1..t

\* a page whose text only the third target finds, though the first selects an
\* element
C6_Witness ==
    /\ ext.pc = "found"
    /\ ext.applied = {1, 2, 3}
    /\ \E i \in 1..Len(ext.doc) : Matches(ext.doc, i, 1)
    /\ ext.content = StrategyOutput(ext.doc, 3)
    /\ ext.content # << >>

(***************************************************************************)
(* Properties of the title decomposition                                   *)
(***************************************************************************)

TextTheAwakening ==
    <<"T", "h", "e", " ", "A", "w", "a", "k", "e", "n", "i", "n", "g">>

\* the text after the digits that end at e: hyphens and spaces are skipped,
\* and the title ends with the line
TitleAfter(t, e) ==
    LET se == RunEnd(t, e + 1, "sep")
    IN  SubSeq(t, se + 1, RunEnd(t, se + 1, "dot"))

====
